---- MODULE Spec2Model ----
(***************************************************************************)
(* Model of the Atlas territory map server (territoryServer.go,            *)
(* tribeCount.go): marker ingestion and change fingerprint, the tile and   *)
(* game background workers, file publication, top-N tribe selection, owner *)
(* colours, virtual coordinates with the tile gutter, and the bytes of     *)
(* world.map.                                                              *)
(***************************************************************************)
EXTENDS Integers, Sequences, FiniteSets, TLC

(***************************************************************************)
(* Bytes and 32-bit words.  A uint32 is kept as its four little-endian     *)
(* bytes <<b0, b1, b2, b3>> (b0 least significant), so that no value       *)
(* leaves the 32-bit width.                                                *)
(***************************************************************************)
Byte == 0..255

Nibble == 0..15

RECURSIVE XorBits(_, _, _)
XorBits(a, b, n) ==
    IF n = 0 THEN 0
    ELSE ((a + b) % 2) + 2 * XorBits(a \div 2, b \div 2, n - 1)

XorNibble == [a \in Nibble |-> [b \in Nibble |-> XorBits(a, b, 4)]]

XorByte(a, b) ==
    16 * XorNibble[a \div 16][b \div 16] + XorNibble[a % 16][b % 16]

XorWord(u, v) == [i \in 1..4 |-> XorByte(u[i], v[i])]

\* ^crc : bitwise complement of a uint32
NotWord(u) == [i \in 1..4 |-> 255 - u[i]]

\* crc >> 1
ShiftRight1(u) ==
    << (u[1] \div 2) + 128 * (u[2] % 2),
       (u[2] \div 2) + 128 * (u[3] % 2),
       (u[3] \div 2) + 128 * (u[4] % 2),
       u[4] \div 2 >>

\* crc >> 8
ShiftRight8(u) == << u[2], u[3], u[4], 0 >>

\* unsigned comparison crcs[i] < crcs[j]
WordLess(u, v) ==
    \/ u[4] < v[4]
    \/ u[4] = v[4] /\ u[3] < v[3]
    \/ u[4] = v[4] /\ u[3] = v[3] /\ u[2] < v[2]
    \/ u[4] = v[4] /\ u[3] = v[3] /\ u[2] = v[2] /\ u[1] < v[1]

\* crc32.IEEE, reversed polynomial 0xedb88320
IEEEPoly == << 32, 131, 184, 237 >>

RECURSIVE CrcTableEntry(_, _)
CrcTableEntry(c, k) ==
    IF k = 0 THEN c
    ELSE CrcTableEntry(IF c[1] % 2 = 1 THEN XorWord(ShiftRight1(c), IEEEPoly)
                                       ELSE ShiftRight1(c), k - 1)

CrcTable == [i \in Byte |-> CrcTableEntry(<< i, 0, 0, 0 >>, 8)]

RECURSIVE CrcUpdate(_, _, _)
CrcUpdate(crc, bytes, i) ==
    IF i > Len(bytes) THEN crc
    ELSE CrcUpdate(XorWord(CrcTable[XorByte(crc[1], bytes[i])], ShiftRight8(crc)),
                   bytes, i + 1)

\* crc32.ChecksumIEEE(bytes)
ChecksumIEEE(bytes) == NotWord(CrcUpdate(NotWord(<< 0, 0, 0, 0 >>), bytes, 1))

(***************************************************************************)
(* Configuration (config.json).  A small server grid and pyramid.          *)
(***************************************************************************)
ServersX == 2

ServersY == 1

MaxUint16 == 65535

\* the cells in the order of the loops of fetchClaimMarkers: x outer, y inner
CellOrder ==
    [i \in 1..(ServersX * ServersY) |->
        << (i - 1) \div ServersY, (i - 1) % ServersY >>]

Cells == {CellOrder[i] : i \in DOMAIN CellOrder}

(***************************************************************************)
(* Raw records of the marker store: 64-bit LE owner, 16-bit LE raw X,      *)
(* 16-bit LE raw Y, 8-bit type, three reserved bytes.                      *)
(***************************************************************************)
RECURSIVE LEBytes(_, _)
LEBytes(n, k) == IF k = 0 THEN << >> ELSE << n % 256 >> \o LEBytes(n \div 256, k - 1)

\* binary.LittleEndian.Uint64 / Uint16 of a byte slice
RECURSIVE LEUint(_)
LEUint(bytes) ==
    IF bytes = << >> THEN 0 ELSE bytes[1] + 256 * LEUint(Tail(bytes))

RawRecord(owner, tx, ty, type) ==
    LEBytes(owner, 8) \o LEBytes(tx, 2) \o LEBytes(ty, 2) \o << type, 0, 0, 0 >>

\* The raw records the store can hold: a land marker, the same marker as
\* water, with another owner, at another X, at another Y, a truncated one,
\* and a land marker at the raw position (27683, 61558).
RawBytes ==
    << RawRecord(10, 100, 200, 0),
       RawRecord(10, 100, 200, 1),
       RawRecord(20, 100, 200, 0),
       RawRecord(10, 300, 200, 0),
       RawRecord(10, 100, 400, 0),
       SubSeq(RawRecord(10, 100, 200, 0), 1, 5),
       RawRecord(10, 27683, 61558, 0) >>

RecIds == DOMAIN RawBytes

\* newCRC := crc32.ChecksumIEEE(bytes), per raw record
RecordChecksum == [r \in RecIds |-> ChecksumIEEE(RawBytes[r])]

\* bytes[0:8], bytes[8:10], bytes[10:12], bytes[12] are in range
WellFormed(bytes) == Len(bytes) >= 13

\* relX, relY are the fractions raw / math.MaxUint16, kept as <<num, den>>
ParseMarker(cell, bytes) ==
    [serverX |-> cell[1], serverY |-> cell[2],
     tribeOrOwnerID |-> LEUint(SubSeq(bytes, 1, 8)),
     relX |-> << LEUint(SubSeq(bytes, 9, 10)), MaxUint16 >>,
     relY |-> << LEUint(SubSeq(bytes, 11, 12)), MaxUint16 >>,
     markerType |-> bytes[13]]

\* sort.Slice(crcs, func(i, j int) bool { return crcs[i] < crcs[j] })
RECURSIVE InsertCrc(_, _)
InsertCrc(sorted, c) ==
    IF sorted = << >> THEN << c >>
    ELSE IF WordLess(c, Head(sorted)) THEN << c >> \o sorted
    ELSE << Head(sorted) >> \o InsertCrc(Tail(sorted), c)

\* the sort left out: the checksums stay in delivery order
SortCrcsSkipped(crcs) == crcs

RECURSIVE SortCrcs(_)
SortCrcs(crcs) ==
    IF crcs = << >> THEN << >>
    ELSE InsertCrc(SortCrcs(Tail(crcs)), Head(crcs))

\* hash := crc32.NewIEEE(); binary.Write(hash, binary.LittleEndian, crc) for
\* each crc; hash.Sum32(): the checksum of the concatenated 4-byte encodings
RECURSIVE ConcatWords(_)
ConcatWords(ws) ==
    IF ws = << >> THEN << >>
    ELSE << Head(ws)[1], Head(ws)[2], Head(ws)[3], Head(ws)[4] >> \o ConcatWords(Tail(ws))

FoldCrcs(crcs) == ChecksumIEEE(ConcatWords(crcs))

\* One SMembers reply per cell: an error, or the members in some order.
Perms(S) ==
    {s \in [1..Cardinality(S) -> S] : \A i, j \in 1..Cardinality(S) : s[i] = s[j] => i = j}

StoreCell(store, c) == {r \in RecIds : << c, r >> \in store}

Orders(store) ==
    {o \in [Cells -> UNION {Perms(StoreCell(store, c)) : c \in Cells}] :
        \A c \in Cells : o[c] \in Perms(StoreCell(store, c))}

Deliveries(store, failing) ==
    {[c \in Cells |-> [err |-> c \in failing, results |-> o[c]]] : o \in Orders(store)}

\* The inner loop over one cell's results (lines 633-652).  A record that is
\* too short makes the slice expression panic.
RECURSIVE FetchCell(_, _, _, _)
FetchCell(acc, cell, results, i) ==
    IF acc.panicked \/ i > Len(results) THEN acc
    ELSE LET bytes == RawBytes[results[i]]
             crcs  == Append(acc.crcs, RecordChecksum[results[i]])
         IN  IF ~WellFormed(bytes)
             THEN [acc EXCEPT !.crcs = crcs, !.panicked = TRUE]
             ELSE FetchCell([acc EXCEPT !.crcs = crcs,
                                        !.markers = Append(@, ParseMarker(cell, bytes))],
                            cell, results, i + 1)

\* The loops over the cells (lines 626-654); a failed read skips the cell.
RECURSIVE FetchCells(_, _, _)
FetchCells(acc, delivery, k) ==
    IF acc.panicked \/ k > Len(CellOrder) THEN acc
    ELSE LET cell == CellOrder[k]
         IN  IF delivery[cell].err
             THEN FetchCells(acc, delivery, k + 1)
             ELSE FetchCells(FetchCell(acc, cell, delivery[cell].results, 1),
                             delivery, k + 1)

\* fetchClaimMarkers: the markers and the fingerprint, or a panic
FetchClaimMarkers(delivery) ==
    LET acc == FetchCells([crcs |-> << >>, markers |-> << >>, panicked |-> FALSE],
                          delivery, 1)
    IN  [markers  |-> acc.markers,
         crc      |-> FoldCrcs(SortCrcs(acc.crcs)),
         panicked |-> acc.panicked]

(***************************************************************************)
(* The background workers and file publication.                            *)
(***************************************************************************)
MaxZoom == 2

\* caps of the model: polling cycles per worker, injected staging failures
MaxCycles == 2

MaxFaults == 1

Workers == {"tile", "game"}

Zooms == 0..(MaxZoom - 1)

\* tiles := 1 << zoomLevel
Tiles(z) == 2 ^ z

TileCount(z) == Tiles(z) * Tiles(z)

\* the zoom level left out of the file name
TilePathNoZoom(z, i) == << "territoryTiles", 0, i \div Tiles(z), i % Tiles(z) >>

\* the i-th tile of the loops of generateTiles: tileX outer, tileY inner
TilePath(z, i) == << "territoryTiles", z, i \div Tiles(z), i % Tiles(z) >>

WorldPath == << "gameTiles/world.map", 0, 0, 0 >>

Paths ==
    {WorldPath} \cup UNION {{TilePath(z, i) : i \in 0..(TileCount(z) - 1)} : z \in Zooms}

\* A file: absent, or present with the marker snapshot it was rendered or
\* encoded from; complete once the encoder has written all of it.
Absent == [present |-> FALSE, complete |-> FALSE, data |-> << >>]

NewFile == [present |-> TRUE, complete |-> FALSE, data |-> << >>]

Written(markers) == [present |-> TRUE, complete |-> TRUE, data |-> markers]

\* os.Remove(name)
OsRemove(files, path) == [files EXCEPT ![path] = Absent]

\* os.Rename(tmp, name): fails, changing nothing, when tmp does not exist
OsRename(files, tmp, path) ==
    IF tmp.present THEN [files EXCEPT ![path] = tmp] ELSE files

\* previousCrc := uint32(1)
InitialCrc == << 1, 0, 0, 0 >>

\* What the store holds when a worker reads it: nothing, one marker, the same
\* marker in the other cell, one marker beside a truncated record, and the
\* marker at (27683, 61558) alone.
WorkerStores ==
    { {},
      {<< CellOrder[1], 1 >>},
      {<< CellOrder[2], 1 >>},
      {<< CellOrder[1], 1 >>, << CellOrder[2], 6 >>},
      {<< CellOrder[1], 7 >>} }

FetchInputs ==
    UNION {Deliveries(st, failing) : st \in WorkerStores, failing \in SUBSET Cells}

\* the raw records a fetch ingested, cell by cell in delivery order
RECURSIVE IngestedFrom(_, _)
IngestedFrom(delivery, k) ==
    IF k > Len(CellOrder) THEN << >>
    ELSE (IF delivery[CellOrder[k]].err THEN << >>
          ELSE [i \in 1..Len(delivery[CellOrder[k]].results) |->
                    << CellOrder[k], delivery[CellOrder[k]].results[i] >>])
         \o IngestedFrom(delivery, k + 1)

Ingested(delivery) == IngestedFrom(delivery, 1)

IngestionError(delivery) ==
    \E c \in Cells :
        \/ delivery[c].err
        \/ \E i \in 1..Len(delivery[c].results) : ~WellFormed(RawBytes[delivery[c].results[i]])

VARIABLES
    proc,          \* "running", "crashed" (killed), "panicked" (runtime panic)
    enabled,       \* the workers main starts: EnableTileGeneration, EnableGameGeneration
    s3,            \* AtlasS3AccessID is set (uploads are made)
    pc,            \* each worker's position in its loop
    previousCrc,   \* each worker's previousCrc
    markers,       \* each worker's markers of the current cycle
    wg,            \* the tile worker's WaitGroup counter
    zoom,          \* the tile worker's loop variable zoom
    tpc,           \* each generateTiles task's position
    tidx,          \* each generateTiles task's tile (tileX * tiles + tileY)
    tf,            \* each generateTiles task's f is an open file (not nil)
    ttmp,          \* each generateTiles task's temp file
    gf,            \* generateCompressedFile's f is an open file (not nil)
    gtmp,          \* generateCompressedFile's temp file
    fs,            \* the files at the canonical paths
    remote,        \* the objects uploaded to S3
    \* history of the run
    cycle,         \* polling cycles each worker has started
    faults,        \* staging failures injected so far
    snap,          \* raw records each worker ingested in its current cycle
    prevSnap,      \* ... and in the cycle before
    skipped,       \* the worker's current cycle found the fingerprint unchanged
    wrote,         \* the worker's current cycle made a file operation or an upload
    genFailed,     \* the worker's current cycle failed to stage a temp file
    prevGenFailed, \* ... and the cycle before
    ingestErr,     \* the worker's last fetch met a failed read or a malformed record
    tbefore,       \* canonical file when a task's generateImage began
    gbefore,       \* canonical file when generateCompressedFile began
    tcycle,        \* the polling cycle whose loop started each generateTiles task
    publishes,     \* completed world.map publishes (rename succeeded)
    urlsAt,        \* value of publishes when territory_urls was last written (-1: never)
    notesAt,       \* value of publishes when the refresh was last published (-1: never)
    unbacked,      \* a signal was sent with no publish completed since the one before
    \* inputs and results of the pure functions
    fpIn,          \* fingerprint check: the two stores and the failing cells
    fpOut,         \* fingerprint check: the two fetch results
    topIn,         \* TopNTribes: n and the counts
    topOut,        \* TopNTribes: the results
    colIn,         \* getTribeColor: the owner id
    colOut,        \* getTribeColor: the colour returned
    mapIn,         \* generateCompressedFile: configuration and query result
    mapOut,        \* generateCompressedFile: the bytes written
    gutIn,         \* generateTiles: configuration, zoom level, tile and marker
    gutOut         \* generateTiles: what each neighbouring tile draws

workerVars ==
    << proc, enabled, s3, pc, previousCrc, markers, wg, zoom, tpc, tidx, tf, ttmp,
       gf, gtmp, fs, remote, cycle, faults, snap, prevSnap, skipped,
       wrote, genFailed, prevGenFailed, ingestErr, tbefore, gbefore, tcycle,
       publishes, urlsAt, notesAt, unbacked >>

fpVars == << fpIn, fpOut >>

topVars == << topIn, topOut >>

colorVars == << colIn, colOut >>

worldVars == << mapIn, mapOut >>

gutterVars == << gutIn, gutOut >>

pureVars == << fpVars, topVars, colorVars, worldVars, gutterVars >>

vars == << workerVars, pureVars >>

NoInput == [used |-> FALSE]

FPIdle == fpIn = NoInput /\ fpOut = NoInput

TopIdle == topIn = NoInput /\ topOut = NoInput

ColorIdle == colIn = NoInput /\ colOut = NoInput

WorldIdle == mapIn = NoInput /\ mapOut = NoInput

GutterIdle == gutIn = NoInput /\ gutOut = NoInput

PureIdle == FPIdle /\ TopIdle /\ ColorIdle /\ WorldIdle /\ GutterIdle

\* main: the configuration is loaded and the enabled workers are started
WorkersStart(configs, credentials) ==
    /\ proc = "running"
    /\ enabled \in configs
    /\ s3 \in credentials
    /\ pc = [w \in Workers |-> IF w = "game" THEN "startUrls" ELSE "fetch"]
    /\ previousCrc = [w \in Workers |-> InitialCrc]
    /\ markers = [w \in Workers |-> << >>]
    /\ wg = 0
    /\ zoom = 0
    /\ tpc = [z \in Zooms |-> "idle"]
    /\ tidx = [z \in Zooms |-> 0]
    /\ tf = [z \in Zooms |-> FALSE]
    /\ ttmp = [z \in Zooms |-> Absent]
    /\ gf = FALSE
    /\ gtmp = Absent
    /\ fs = [p \in Paths |-> Absent]
    /\ remote = [p \in Paths |-> Absent]
    /\ cycle = [w \in Workers |-> 0]
    /\ faults = 0
    /\ snap = [w \in Workers |-> << >>]
    /\ prevSnap = [w \in Workers |-> << >>]
    /\ skipped = [w \in Workers |-> FALSE]
    /\ wrote = [w \in Workers |-> FALSE]
    /\ genFailed = [w \in Workers |-> FALSE]
    /\ prevGenFailed = [w \in Workers |-> FALSE]
    /\ ingestErr = [w \in Workers |-> FALSE]
    /\ tbefore = [z \in Zooms |-> Absent]
    /\ gbefore = Absent
    /\ tcycle = [z \in Zooms |-> 0]
    /\ publishes = 0
    /\ urlsAt = -1
    /\ notesAt = -1
    /\ unbacked = FALSE

\* main (lines 790-795) starts the tile worker, or the game worker
Init == WorkersStart({{"tile"}, {"game"}}, BOOLEAN) /\ PureIdle

Running(w) == proc = "running" /\ w \in enabled

tileVars == << wg, zoom, tpc, tidx, tf, ttmp, tbefore, tcycle >>

gameVars == << gf, gtmp, gbefore, publishes, urlsAt, notesAt, unbacked >>

\* the comparison left out: every cycle generates
FetchAndCompareAlways(w, delivery, changedPc) ==
    LET r == FetchClaimMarkers(delivery)
    IN  /\ cycle' = [cycle EXCEPT ![w] = @ + 1]
        /\ prevSnap' = [prevSnap EXCEPT ![w] = snap[w]]
        /\ snap' = [snap EXCEPT ![w] = Ingested(delivery)]
        /\ ingestErr' = [ingestErr EXCEPT ![w] = IngestionError(delivery)]
        /\ prevGenFailed' = [prevGenFailed EXCEPT ![w] = genFailed[w]]
        /\ genFailed' = [genFailed EXCEPT ![w] = FALSE]
        /\ wrote' = [wrote EXCEPT ![w] = FALSE]
        /\ IF r.panicked
           THEN /\ proc' = "panicked"
                /\ UNCHANGED << pc, previousCrc, markers, skipped >>
           ELSE /\ proc' = proc
                /\ markers' = [markers EXCEPT ![w] = r.markers]
                /\ previousCrc' = [previousCrc EXCEPT ![w] = r.crc]
                /\ skipped' = [skipped EXCEPT ![w] = FALSE]
                /\ pc' = [pc EXCEPT ![w] = changedPc]

\* The head of a worker's loop (lines 695-698, 724-727): fetch, compare, and
\* on a changed fingerprint store it.  A panic in fetchClaimMarkers is not
\* recovered and ends the process.
FetchAndCompare(w, delivery, changedPc) ==
    LET r == FetchClaimMarkers(delivery)
    IN  /\ cycle' = [cycle EXCEPT ![w] = @ + 1]
        /\ prevSnap' = [prevSnap EXCEPT ![w] = snap[w]]
        /\ snap' = [snap EXCEPT ![w] = Ingested(delivery)]
        /\ ingestErr' = [ingestErr EXCEPT ![w] = IngestionError(delivery)]
        /\ prevGenFailed' = [prevGenFailed EXCEPT ![w] = genFailed[w]]
        /\ genFailed' = [genFailed EXCEPT ![w] = FALSE]
        /\ wrote' = [wrote EXCEPT ![w] = FALSE]
        /\ IF r.panicked
           THEN /\ proc' = "panicked"
                /\ UNCHANGED << pc, previousCrc, markers, skipped >>
           ELSE /\ proc' = proc
                /\ markers' = [markers EXCEPT ![w] = r.markers]
                /\ IF r.crc # previousCrc[w]
                   THEN /\ previousCrc' = [previousCrc EXCEPT ![w] = r.crc]
                        /\ skipped' = [skipped EXCEPT ![w] = FALSE]
                        /\ pc' = [pc EXCEPT ![w] = changedPc]
                   ELSE /\ skipped' = [skipped EXCEPT ![w] = TRUE]
                        /\ UNCHANGED previousCrc
                        /\ pc' = [pc EXCEPT ![w] = "sleep"]

\* tileBackgroundWorker, lines 695-702: fetch, compare, wg.Add(MaxZoom)
TileFetch ==
    /\ Running("tile") /\ pc["tile"] = "fetch" /\ cycle["tile"] < MaxCycles
    /\ \E delivery \in FetchInputs :
          /\ FetchAndCompare("tile", delivery, IF MaxZoom = 0 THEN "wait" ELSE "spawn")
          /\ IF pc'["tile"] \in {"spawn", "wait"}
             THEN /\ wg' = MaxZoom
                  /\ zoom' = 0
                  /\ tpc' = [z \in Zooms |-> "idle"]
             ELSE UNCHANGED << wg, zoom, tpc >>
    /\ UNCHANGED << enabled, s3, fs, remote, faults, tidx, tf, ttmp, tbefore, tcycle, gameVars,
                    pureVars >>

\* lines 703-705: go generateTiles(tilePath, zoom, markers, &wg)
TileSpawn ==
    /\ Running("tile") /\ pc["tile"] = "spawn"
    /\ tpc' = [tpc EXCEPT ![zoom] = "open"]
    /\ tidx' = [tidx EXCEPT ![zoom] = 0]
    /\ tcycle' = [tcycle EXCEPT ![zoom] = cycle["tile"]]
    /\ zoom' = zoom + 1
    /\ pc' = [pc EXCEPT !["tile"] = IF zoom + 1 < MaxZoom THEN "spawn" ELSE "wait"]
    /\ UNCHANGED << proc, enabled, s3, previousCrc, markers, wg, tf, ttmp, tbefore, fs,
                    remote, cycle, faults, snap, prevSnap, skipped, wrote, genFailed,
                    prevGenFailed, ingestErr, gameVars, pureVars >>

\* lines 706-707: wg.Wait() returns when the counter is zero
TileWait ==
    /\ Running("tile") /\ pc["tile"] = "wait"
    /\ wg = 0
    /\ pc' = [pc EXCEPT !["tile"] = "sleep"]
    /\ UNCHANGED << proc, enabled, s3, previousCrc, markers, tileVars, fs, remote, cycle,
                    faults, snap, prevSnap, skipped, wrote, genFailed, prevGenFailed,
                    ingestErr, gameVars, pureVars >>

\* line 712: time.Sleep, then the next iteration
TileSleep ==
    /\ Running("tile") /\ pc["tile"] = "sleep"
    /\ pc' = [pc EXCEPT !["tile"] = "fetch"]
    /\ UNCHANGED << proc, enabled, s3, previousCrc, markers, tileVars, fs, remote, cycle,
                    faults, snap, prevSnap, skipped, wrote, genFailed, prevGenFailed,
                    ingestErr, gameVars, pureVars >>

TaskAt(z, at) == Running("tile") /\ tpc[z] = at

TaskUnchanged ==
    UNCHANGED << proc, enabled, s3, pc, previousCrc, markers, zoom, cycle, snap, prevSnap,
                 skipped, prevGenFailed, ingestErr, tcycle, gameVars, pureVars >>

\* generateImage, lines 415-418: os.MkdirAll and os.OpenFile, errors dropped
TileOpenTemp(z) ==
    /\ TaskAt(z, "open")
    /\ \E ok \in BOOLEAN :
          /\ ~ok => faults < MaxFaults
          /\ faults' = IF ok THEN faults ELSE faults + 1
          /\ tf' = [tf EXCEPT ![z] = ok]
          /\ ttmp' = [ttmp EXCEPT ![z] = IF ok THEN NewFile ELSE Absent]
          /\ wrote' = [wrote EXCEPT !["tile"] = @ \/ ok]
          /\ genFailed' = [genFailed EXCEPT !["tile"] = @ \/ ~ok]
    /\ tbefore' = [tbefore EXCEPT ![z] = fs[TilePath(z, tidx[z])]]
    /\ tpc' = [tpc EXCEPT ![z] = "write"]
    /\ UNCHANGED << wg, tidx, fs, remote >>
    /\ TaskUnchanged

\* lines 419-420: png.Encode(f, finalImg); f.Close()
TileWriteTemp(z) ==
    /\ TaskAt(z, "write")
    /\ ttmp' = [ttmp EXCEPT ![z] = IF tf[z] THEN Written(markers["tile"]) ELSE @]
    /\ tpc' = [tpc EXCEPT ![z] = "remove"]
    /\ UNCHANGED << wg, tidx, tf, tbefore, fs, remote, faults, wrote, genFailed >>
    /\ TaskUnchanged

\* line 423: os.Remove(opts.filename)
TileRemove(z) ==
    /\ TaskAt(z, "remove")
    /\ fs' = OsRemove(fs, TilePath(z, tidx[z]))
    /\ wrote' = [wrote EXCEPT !["tile"] = TRUE]
    /\ tpc' = [tpc EXCEPT ![z] = "rename"]
    /\ UNCHANGED << wg, tidx, tf, ttmp, tbefore, remote, faults, genFailed >>
    /\ TaskUnchanged

\* uploadToS3(file): nothing without credentials or when the file cannot be opened
UploadToS3(objects, files, path) ==
    IF s3 /\ files[path].present THEN [objects EXCEPT ![path] = files[path]] ELSE objects

\* wg.Done() called after every tile instead of once, when the task returns
TileRenameDoneEachTile(z) ==
    /\ TaskAt(z, "rename")
    /\ fs' = OsRename(fs, ttmp[z], TilePath(z, tidx[z]))
    /\ ttmp' = [ttmp EXCEPT ![z] = Absent]
    /\ remote' = UploadToS3(remote, fs', TilePath(z, tidx[z]))
    /\ wrote' = [wrote EXCEPT !["tile"] = TRUE]
    /\ wg' = wg - 1
    /\ IF tidx[z] + 1 < TileCount(z)
       THEN /\ tidx' = [tidx EXCEPT ![z] = @ + 1]
            /\ tpc' = [tpc EXCEPT ![z] = "open"]
       ELSE /\ tidx' = tidx
            /\ tpc' = [tpc EXCEPT ![z] = "done"]
    /\ UNCHANGED << tf, tbefore, faults, genFailed >>
    /\ TaskUnchanged

\* lines 424-426: os.Rename(tmpFilename, opts.filename); uploadToS3; then the
\* next tile of the loops, or the return of generateTiles and the deferred
\* wg.Done() (line 572)
TileRename(z) ==
    /\ TaskAt(z, "rename")
    /\ fs' = OsRename(fs, ttmp[z], TilePath(z, tidx[z]))
    /\ ttmp' = [ttmp EXCEPT ![z] = Absent]
    /\ remote' = UploadToS3(remote, fs', TilePath(z, tidx[z]))
    /\ wrote' = [wrote EXCEPT !["tile"] = TRUE]
    /\ IF tidx[z] + 1 < TileCount(z)
       THEN /\ tidx' = [tidx EXCEPT ![z] = @ + 1]
            /\ tpc' = [tpc EXCEPT ![z] = "open"]
            /\ wg' = wg
       ELSE /\ tidx' = tidx
            /\ tpc' = [tpc EXCEPT ![z] = "done"]
            /\ wg' = wg - 1
    /\ UNCHANGED << tf, tbefore, faults, genFailed >>
    /\ TaskUnchanged

GameAt(at) == Running("game") /\ pc["game"] = at

GameUnchanged ==
    UNCHANGED << proc, enabled, s3, previousCrc, markers, tileVars, cycle, snap, prevSnap,
                 skipped, prevGenFailed, ingestErr, pureVars >>

\* a publish of world.map has completed since the signal sent at `at`
PublishedSince(at) == publishes > (IF at < 0 THEN 0 ELSE at)

\* updateUrlsInRedis (lines 666-684): HMSet "territory_urls" with a fresh tag
UpdateUrlsInRedis(next) ==
    /\ urlsAt' = publishes
    /\ unbacked' = (unbacked \/ ~PublishedSince(urlsAt))
    /\ pc' = [pc EXCEPT !["game"] = next]
    /\ UNCHANGED << notesAt, gf, gtmp, gbefore, publishes, fs, remote, faults, wrote, genFailed >>
    /\ GameUnchanged

\* notifyUrlsChanged (lines 686-688): Publish "RefreshTerrityoryUrls"
NotifyUrlsChanged(next) ==
    /\ notesAt' = publishes
    /\ unbacked' = (unbacked \/ ~PublishedSince(notesAt))
    /\ pc' = [pc EXCEPT !["game"] = next]
    /\ UNCHANGED << urlsAt, gf, gtmp, gbefore, publishes, fs, remote, faults, wrote, genFailed >>
    /\ GameUnchanged

\* gameBackgroundWorker, lines 720-721: the signals sent before the loop
GameStartUrls == GameAt("startUrls") /\ UpdateUrlsInRedis("startNotify")

GameStartNotify == GameAt("startNotify") /\ NotifyUrlsChanged("fetch")

\* lines 724-730: fetch, compare, generateGame
GameFetch ==
    /\ GameAt("fetch") /\ cycle["game"] < MaxCycles
    /\ \E delivery \in FetchInputs : FetchAndCompare("game", delivery, "open")
    /\ UNCHANGED << enabled, s3, fs, remote, faults, tileVars, gameVars, pureVars >>

\* generateCompressedFile, lines 492-495: os.MkdirAll and os.OpenFile, errors dropped
GameOpenTemp ==
    /\ GameAt("open")
    /\ \E ok \in BOOLEAN :
          /\ ~ok => faults < MaxFaults
          /\ faults' = IF ok THEN faults ELSE faults + 1
          /\ gf' = ok
          /\ gtmp' = IF ok THEN NewFile ELSE Absent
          /\ wrote' = [wrote EXCEPT !["game"] = @ \/ ok]
          /\ genFailed' = [genFailed EXCEPT !["game"] = @ \/ ~ok]
    /\ gbefore' = fs[WorldPath]
    /\ pc' = [pc EXCEPT !["game"] = "write"]
    /\ UNCHANGED << fs, remote, publishes, urlsAt, notesAt, unbacked >>
    /\ GameUnchanged

\* the records written straight to the canonical file, not to the temp file
GameWriteTempInPlace ==
    /\ GameAt("write")
    /\ gtmp' = IF gf THEN Written(markers["game"]) ELSE gtmp
    /\ fs' = IF gf THEN [fs EXCEPT ![WorldPath] = Written(markers["game"])] ELSE fs
    /\ pc' = [pc EXCEPT !["game"] = "remove"]
    /\ UNCHANGED << gf, gbefore, remote, faults, wrote, genFailed, publishes, urlsAt,
                    notesAt, unbacked >>
    /\ GameUnchanged

\* lines 497-561: the header and the owner records are written, f.Close()
GameWriteTemp ==
    /\ GameAt("write")
    /\ gtmp' = IF gf THEN Written(markers["game"]) ELSE gtmp
    /\ pc' = [pc EXCEPT !["game"] = "remove"]
    /\ UNCHANGED << gf, gbefore, fs, remote, faults, wrote, genFailed, publishes, urlsAt,
                    notesAt, unbacked >>
    /\ GameUnchanged

\* line 564: os.Remove(opts.filename)
GameRemove ==
    /\ GameAt("remove")
    /\ fs' = OsRemove(fs, WorldPath)
    /\ wrote' = [wrote EXCEPT !["game"] = TRUE]
    /\ pc' = [pc EXCEPT !["game"] = "rename"]
    /\ UNCHANGED << gf, gtmp, gbefore, remote, faults, genFailed, publishes, urlsAt,
                    notesAt, unbacked >>
    /\ GameUnchanged

\* lines 565-567: os.Rename(tmpFilename, opts.filename); uploadToS3
GameRename ==
    /\ GameAt("rename")
    /\ fs' = OsRename(fs, gtmp, WorldPath)
    /\ gtmp' = Absent
    /\ publishes' = IF gtmp.present THEN publishes + 1 ELSE publishes
    /\ remote' = UploadToS3(remote, fs', WorldPath)
    /\ wrote' = [wrote EXCEPT !["game"] = TRUE]
    /\ pc' = [pc EXCEPT !["game"] = "urls"]
    /\ UNCHANGED << gf, gbefore, faults, genFailed, urlsAt, notesAt, unbacked >>
    /\ GameUnchanged

\* lines 732-733: the signals after generateGame has returned
GameUrls == GameAt("urls") /\ UpdateUrlsInRedis("notify")

GameNotify == GameAt("notify") /\ NotifyUrlsChanged("sleep")

\* line 738: time.Sleep, then the next iteration
GameSleep ==
    /\ GameAt("sleep")
    /\ pc' = [pc EXCEPT !["game"] = "fetch"]
    /\ UNCHANGED << gameVars, fs, remote, faults, wrote, genFailed >>
    /\ GameUnchanged

\* the process is killed
Crash ==
    /\ proc = "running"
    /\ proc' = "crashed"
    /\ UNCHANGED << enabled, s3, pc, previousCrc, markers, tileVars, gameVars, fs, remote,
                    cycle, faults, snap, prevSnap, skipped, wrote, genFailed,
                    prevGenFailed, ingestErr, pureVars >>

Next ==
    \/ TileFetch
    \/ TileSpawn
    \/ TileWait
    \/ TileSleep
    \/ \E z \in Zooms : TileOpenTemp(z)
    \/ \E z \in Zooms : TileWriteTemp(z)
    \/ \E z \in Zooms : TileRemove(z)
    \/ \E z \in Zooms : TileRename(z)
    \/ GameStartUrls
    \/ GameStartNotify
    \/ GameFetch
    \/ GameOpenTemp
    \/ GameWriteTemp
    \/ GameRemove
    \/ GameRename
    \/ GameUrls
    \/ GameNotify
    \/ GameSleep
    \/ Crash

Spec == Init /\ [][Next]_vars

(***************************************************************************)
(* fetchClaimMarkers as a function: two stores, read with the same cells   *)
(* failing, each delivered in some order.                                  *)
(***************************************************************************)
MaxMarkers == 2

FPStores == {st \in SUBSET (Cells \X RecIds) : Cardinality(st) <= MaxMarkers}

\* b is a, or a with one record added, removed, replaced or moved
OneChange(a, b) ==
    \/ a = b
    \/ \E p \in a \cup b : a \ {p} = b \ {p}
    \/ \E p \in a, q \in b : a \ {p} = b \ {q}

FPInit ==
    /\ fpIn \in {in \in [used : {TRUE}, a : FPStores, b : FPStores, failing : SUBSET Cells] :
                    OneChange(in.a, in.b)}
    /\ fpOut = NoInput
    /\ TopIdle /\ ColorIdle /\ WorldIdle /\ GutterIdle
    /\ WorkersStart({{}}, {FALSE})

FPFetch ==
    /\ fpIn.used /\ ~fpOut.used
    /\ \E da \in Deliveries(fpIn.a, fpIn.failing), db \in Deliveries(fpIn.b, fpIn.failing) :
          fpOut' = [used |-> TRUE, da |-> da, db |-> db,
                    a |-> FetchClaimMarkers(da), b |-> FetchClaimMarkers(db)]
    /\ UNCHANGED << fpIn, topVars, colorVars, worldVars, gutterVars, workerVars >>

SpecFP == FPInit /\ [][FPFetch]_vars

(***************************************************************************)
(* TopNTribes.  A heap is a sequence h of TribeCount records; the code's    *)
(* index i is h[i + 1].                                                    *)
(***************************************************************************)
MaxN == 3

TopOwners == {5, 10, 20}

CountValues == {3, 5}

\* TribeCountHeap.Less
Less(h, i, j) ==
    \/ h[i + 1].count < h[j + 1].count
    \/ h[i + 1].count = h[j + 1].count /\ h[i + 1].tribeID < h[j + 1].tribeID

\* TribeCountHeap.Swap
Swap(h, i, j) == [h EXCEPT ![i + 1] = h[j + 1], ![j + 1] = h[i + 1]]

\* container/heap down(h, i0, n)
RECURSIVE Down(_, _, _)
Down(h, i, n) ==
    LET j1 == 2 * i + 1
        j  == IF j1 + 1 < n /\ Less(h, j1 + 1, j1) THEN j1 + 1 ELSE j1
    IN  IF j1 >= n THEN h
        ELSE IF ~Less(h, j, i) THEN h
        ELSE Down(Swap(h, i, j), j, n)

\* container/heap up(h, j)
RECURSIVE Up(_, _)
Up(h, j) ==
    LET i == IF j = 0 THEN 0 ELSE (j - 1) \div 2
    IN  IF i = j \/ ~Less(h, j, i) THEN h
        ELSE Up(Swap(h, i, j), i)

\* heap.Init(&pq)
RECURSIVE HeapInitFrom(_, _)
HeapInitFrom(h, i) == IF i < 0 THEN h ELSE HeapInitFrom(Down(h, i, Len(h)), i - 1)

HeapInit(h) == HeapInitFrom(h, (Len(h) \div 2) - 1)

\* heap.Push(&pq, v)
HeapPush(h, v) == Up(Append(h, v), Len(h))

\* heap.Pop(&pq), the popped element dropped
HeapPop(h) ==
    LET n == Len(h) - 1
    IN  SubSeq(Down(Swap(h, 0, n), 0, n), 1, n)

\* Min helper
Min(a, b) == IF a < b THEN a ELSE b

\* the less function given to sort.SliceStable (tribeCount.go, lines 54-62)
SortedBefore(a, b) ==
    \/ a.count > b.count
    \/ a.count = b.count /\ a.tribeID > b.tribeID

\* sort.SliceStable: a stable insertion of v into the sorted s
RECURSIVE InsertStable(_, _)
InsertStable(s, v) ==
    IF s = << >> THEN << v >>
    ELSE IF SortedBefore(v, Head(s)) THEN << v >> \o s
    ELSE << Head(s) >> \o InsertStable(Tail(s), v)

RECURSIVE SliceStable(_, _)
SliceStable(s, k) ==
    IF k = 0 THEN << >> ELSE InsertStable(SliceStable(s, k - 1), s[k])

\* TopNTribes of tribeCount.go; iter is the order in which range yields the map
TopNTribes(n, iter) ==
    LET pq == SliceStable(HeapInit(iter), Len(iter))
    IN  [i \in 1..(IF Min(n, Len(pq)) < 0 THEN 0 ELSE Min(n, Len(pq))) |-> pq[i].tribeID]

\* the loop over the map of the bounded-heap TopNTribes (territoryServer.go,
\* lines 847-863), after k entries of iter
RECURSIVE BoundedLoop(_, _, _)
BoundedLoop(n, iter, k) ==
    IF k = 0 THEN << >>
    ELSE LET pq == BoundedLoop(n, iter, k - 1)
             i  == k - 1
             v  == iter[k]
         IN  IF i < n THEN Append(pq, v)
             ELSE LET h  == IF i = n THEN HeapInit(pq) ELSE pq
                      h2 == HeapPush(h, v)
                  IN  IF Len(h2) > n THEN HeapPop(h2) ELSE h2

\* TopNTribes of territoryServer.go (lines 844-872)
TopNTribesBounded(n, iter) ==
    LET looped == BoundedLoop(n, iter, Len(iter))
        pq     == IF Len(iter) <= n THEN HeapInit(looped) ELSE looped
        m      == IF Min(n, Len(pq)) < 0 THEN 0 ELSE Min(n, Len(pq))
    IN  [k \in 1..m |-> pq[m - k + 1].tribeID]

CountMaps == UNION {[owners -> CountValues] : owners \in SUBSET TopOwners}

\* the orders in which range can yield the entries of the map
IterOrders(counts) ==
    {[k \in 1..Len(o) |-> [tribeID |-> o[k], count |-> counts[o[k]]]] :
        o \in Perms(DOMAIN counts)}

TopInit ==
    /\ topIn \in [used : {TRUE}, n : 0..MaxN, counts : CountMaps]
    /\ topOut = NoInput
    /\ FPIdle /\ ColorIdle /\ WorldIdle /\ GutterIdle
    /\ WorkersStart({{}}, {FALSE})

TopSorted ==
    /\ topIn.used /\ ~topOut.used
    /\ \E iter \in IterOrders(topIn.counts) :
          topOut' = [used |-> TRUE, variant |-> "sort", iter |-> iter,
                     result |-> TopNTribes(topIn.n, iter)]
    /\ UNCHANGED << topIn, fpVars, colorVars, worldVars, gutterVars, workerVars >>

TopBounded ==
    /\ topIn.used /\ ~topOut.used
    /\ \E iter \in IterOrders(topIn.counts) :
          topOut' = [used |-> TRUE, variant |-> "heap", iter |-> iter,
                     result |-> TopNTribesBounded(topIn.n, iter)]
    /\ UNCHANGED << topIn, fpVars, colorVars, worldVars, gutterVars, workerVars >>

TopNext == TopSorted \/ TopBounded

SpecTopN == TopInit /\ [][TopNext]_vars

(***************************************************************************)
(* getTribeColor.  A colour is its NRGBA value << R, G, B, A >>.           *)
(***************************************************************************)
\* var colors = [...]string{...}; the code's colors[idx] is colors[idx + 1]
colors == << "yellow", "blue", "purple", "coral" >>

ColorNames == {"black", "gray", "yellow", "blue", "purple", "coral"}

\* var colorValues = map[string]color.NRGBA{...}
colorValues ==
    [name \in ColorNames |->
        CASE name = "black"  -> << 0, 0, 0, 255 >>
          [] name = "gray"   -> << 169, 169, 169, 255 >>
          [] name = "yellow" -> << 255, 255, 0, 255 >>
          [] name = "blue"   -> << 0, 0, 255, 255 >>
          [] name = "purple" -> << 128, 0, 128, 255 >>
          [] name = "coral"  -> << 255, 127, 80, 255 >>]

\* the comparison written >= instead of >
isTribeIDInclusive(tribeID) == tribeID >= 1000000000 + 50000

\* func isTribeID(tribeID uint64) bool
isTribeID(tribeID) == tribeID > 1000000000 + 50000

\* func getTribeColor(tribeID uint64) color.NRGBA
getTribeColor(tribeID) ==
    IF tribeID = 0 THEN colorValues["black"]
    ELSE IF ~isTribeID(tribeID) THEN colorValues["gray"]
    ELSE colorValues[colors[(tribeID % Len(colors)) + 1]]

\* The owner ids tried: the low ids and the ids on both sides of the
\* player / group threshold.
OwnerSpread == 40

GroupThreshold == 1000050000

OwnerIDs ==
    (0..OwnerSpread) \cup ((GroupThreshold - OwnerSpread)..(GroupThreshold + OwnerSpread))

ColorInit ==
    /\ colIn \in [used : {TRUE}, tribeID : OwnerIDs]
    /\ colOut = NoInput
    /\ FPIdle /\ TopIdle /\ WorldIdle /\ GutterIdle
    /\ WorkersStart({{}}, {FALSE})

ColorGet ==
    /\ colIn.used /\ ~colOut.used
    /\ colOut' = [used |-> TRUE, color |-> getTribeColor(colIn.tribeID)]
    /\ UNCHANGED << colIn, fpVars, topVars, worldVars, gutterVars, workerVars >>

SpecColor == ColorInit /\ [][ColorGet]_vars

(***************************************************************************)
(* Virtual coordinates.  A float64 is kept as the exact fraction           *)
(* << numerator, denominator >> in lowest terms, denominator positive;     *)
(* the rounding of float64 arithmetic is not modelled.                     *)
(***************************************************************************)
\* the greatest common divisor of a and b, for b > 0
RECURSIVE GCD(_, _)
GCD(a, b) == IF b = 0 THEN a ELSE GCD(b, a % b)

LCM(a, b) == (a \div GCD(a, b)) * b

Rat(n, d) == LET g == GCD(n, d) IN << n \div g, d \div g >>

\* float64(k)
Float(k) == << k, 1 >>

RatAdd(a, b) ==
    LET l == LCM(a[2], b[2])
    IN  Rat(a[1] * (l \div a[2]) + b[1] * (l \div b[2]), l)

RatSub(a, b) == RatAdd(a, << -b[1], b[2] >>)

RatMul(a, b) ==
    LET g1 == GCD(a[1], b[2])
        g2 == GCD(b[1], a[2])
    IN  IF a[1] = 0 \/ b[1] = 0 THEN << 0, 1 >>
        ELSE << (a[1] \div g1) * (b[1] \div g2), (a[2] \div g2) * (b[2] \div g1) >>

RatLess(a, b) ==
    LET l == LCM(a[2], b[2])
    IN  a[1] * (l \div a[2]) < b[1] * (l \div b[2])

\* uint16(f) of a non-negative float64: truncation, then the low 16 bits
Uint16(a) == (a[1] \div a[2]) % 65536

\* config.json left empty: the defaults of loadConfig
DefaultConfig ==
    [ServersX |-> 3, ServersY |-> 3, GameSize |-> 2048, TileSize |-> 256, MaxZoom |-> 7,
     GridSize |-> 1400000, LandRadiusUE |-> 10000, WaterRadiusUE |-> 21000]

\* max(ServersX, ServersY), as computed at lines 289-293, 356-360, 437-441, 598-602
Servers(cfg) == IF cfg.ServersX >= cfg.ServersY THEN cfg.ServersX ELSE cfg.ServersY

\* virtualPixelsPerServer = float64(opts.virtualPixels / config.ServersX)
VirtualPixelsPerServer(cfg, opts) == Float(opts.virtualPixels \div Servers(cfg))

\* virtualPixelsPerServer * config.LandRadiusUE / config.GridSize
VirtualLandRadius(cfg, opts) ==
    RatMul(VirtualPixelsPerServer(cfg, opts), Rat(cfg.LandRadiusUE, cfg.GridSize))

\* virtualPixelsPerServer * config.WaterRadiusUE / config.GridSize
VirtualWaterRadius(cfg, opts) ==
    RatMul(VirtualPixelsPerServer(cfg, opts), Rat(cfg.WaterRadiusUE, cfg.GridSize))

\* float64(opts.actualPixels) / float64(opts.virtualClip.Max.X-opts.virtualClip.Min.X+1)
VirtualToActual(opts) ==
    Rat(opts.actualPixels, opts.virtualClip.Max.X - opts.virtualClip.Min.X + 1)

\* the VirtualBounds of one marker (createQuadTree, lines 300-309)
VirtualBoundsOf(cfg, opts, marker) ==
    LET vpps == VirtualPixelsPerServer(cfg, opts)
    IN  [x |-> RatAdd(RatMul(Rat(marker.relX[1], marker.relX[2]), vpps),
                      RatMul(Float(marker.serverX), vpps)),
         y |-> RatAdd(RatMul(Rat(marker.relY[1], marker.relY[2]), vpps),
                      RatMul(Float(marker.serverY), vpps)),
         radius |-> VirtualWaterRadius(cfg, opts),
         marker |-> marker]

\* func (v VirtualBounds) BoundingBox() quadtree.BoundingBox
BoundingBox(v) ==
    [MinX |-> RatSub(v.x, v.radius), MaxX |-> RatAdd(v.x, v.radius),
     MinY |-> RatSub(v.y, v.radius), MaxY |-> RatAdd(v.y, v.radius)]

\* createQuadTree: the tree's extent and the elements added, in order
createQuadTree(cfg, opts, ms) ==
    [bb |-> [MinX |-> Float(0), MinY |-> Float(0),
             MaxX |-> Float(opts.virtualPixels), MaxY |-> Float(opts.virtualPixels)],
     elements |-> [i \in DOMAIN ms |-> VirtualBoundsOf(cfg, opts, ms[i])]]

\* two closed boxes have a point in common
Intersects(a, b) ==
    /\ ~RatLess(b.MaxX, a.MinX) /\ ~RatLess(a.MaxX, b.MinX)
    /\ ~RatLess(b.MaxY, a.MinY) /\ ~RatLess(a.MaxY, b.MinY)

\* quadTree.Query(qtBB): the elements whose box intersects the window
Query(qt, window) ==
    SelectSeq(qt.elements, LAMBDA v : Intersects(BoundingBox(v), window))

\* qtBB of lines 368-373 and 451-456
ClipWindow(opts) ==
    [MinX |-> Float(opts.virtualClip.Min.X), MaxX |-> Float(opts.virtualClip.Max.X),
     MinY |-> Float(opts.virtualClip.Min.Y), MaxY |-> Float(opts.virtualClip.Max.Y)]

\* marker adjusted for clip zone
ClipX(opts, vb) == RatSub(vb.x, Float(opts.virtualClip.Min.X))

ClipY(opts, vb) == RatSub(vb.y, Float(opts.virtualClip.Min.Y))

\* the filter of lines 382 and 465: the point is outside of clip + gutter
OutsideGutter(cfg, opts, vb) ==
    LET r == VirtualWaterRadius(cfg, opts)
    IN  \/ RatLess(ClipX(opts, vb), RatSub(Float(0), r))
        \/ RatLess(ClipY(opts, vb), RatSub(Float(0), r))
        \/ ~RatLess(ClipX(opts, vb), RatAdd(Float(opts.virtualClip.Max.X), r))
        \/ ~RatLess(ClipY(opts, vb), RatAdd(Float(opts.virtualClip.Max.Y), r))

\* the elements the loops of lines 374-408 and 457-489 go on to handle
Handled(cfg, opts, qt) ==
    SelectSeq(Query(qt, ClipWindow(opts)), LAMBDA vb : ~OutsideGutter(cfg, opts, vb))

(***************************************************************************)
(* generateGame and generateCompressedFile: the bytes of world.map.        *)
(***************************************************************************)
\* image.Rect(x0, y0, x1, y1): the coordinates are put in order
ImageRect(x0, y0, x1, y1) ==
    [Min |-> [X |-> IF x0 > x1 THEN x1 ELSE x0, Y |-> IF y0 > y1 THEN y1 ELSE y0],
     Max |-> [X |-> IF x0 > x1 THEN x0 ELSE x1, Y |-> IF y0 > y1 THEN y0 ELSE y1]]

BitsPerPixel == 32

\* uint16(math.Floor(math.Sqrt(float64(BitsPerPixel))))
ChannelBlocksPerDimension ==
    CHOOSE k \in 0..BitsPerPixel : k * k <= BitsPerPixel /\ (k + 1) * (k + 1) > BitsPerPixel

\* the MapOptions generateGame passes to generateCompressedFile
GameOpts(cfg) ==
    LET CorrectedGameSize == cfg.GameSize * ChannelBlocksPerDimension
        virtualPixels     == CorrectedGameSize * Servers(cfg)
    IN  [actualPixels  |-> CorrectedGameSize,
         virtualPixels |-> virtualPixels,
         virtualClip   |-> ImageRect(0, 0, virtualPixels - 1, virtualPixels - 1)]

\* ClaimFlagOutputEntry{X: uint16(iX), Y: uint16(iY)}
ClaimEntry(opts, vb) ==
    [X |-> Uint16(RatMul(ClipX(opts, vb), VirtualToActual(opts))),
     Y |-> Uint16(RatMul(ClipY(opts, vb), VirtualToActual(opts)))]

\* lines 474-488: the entry of the marker's owner, created when missing,
\* gets the marker appended to its land or its water claims
AddClaim(IDMap, opts, vb) ==
    LET id    == vb.marker.tribeOrOwnerID
        Entry == IF id \in DOMAIN IDMap THEN IDMap[id]
                 ELSE [TribeOrPlayerID |-> id, LandClaims |-> << >>, WaterClaims |-> << >>]
        New   == CASE vb.marker.markerType = 0
                        -> [Entry EXCEPT !.LandClaims = Append(@, ClaimEntry(opts, vb))]
                   [] vb.marker.markerType = 1
                        -> [Entry EXCEPT !.WaterClaims = Append(@, ClaimEntry(opts, vb))]
                   [] OTHER -> Entry
    IN  [o \in DOMAIN IDMap \cup {id} |-> IF o = id THEN New ELSE IDMap[o]]

\* IDMap after the first k handled elements (the loop of lines 457-489)
RECURSIVE BuildIDMap(_, _, _)
BuildIDMap(opts, handled, k) ==
    IF k = 0 THEN << >>
    ELSE AddClaim(BuildIDMap(opts, handled, k - 1), opts, handled[k])

\* ByTribeOrPlayerID.Less
LessByID(a, b) == a.TribeOrPlayerID < b.TribeOrPlayerID

RECURSIVE InsertByID(_, _)
InsertByID(sorted, v) ==
    IF sorted = << >> THEN << v >>
    ELSE IF LessByID(v, Head(sorted)) THEN << v >> \o sorted
    ELSE << Head(sorted) >> \o InsertByID(Tail(sorted), v)

\* the sort left out: the records stay in the order range yields the map
SortByIDSkipped(IDList) == IDList

\* sort.Sort(ByTribeOrPlayerID(IDList))
RECURSIVE SortByID(_)
SortByID(IDList) ==
    IF IDList = << >> THEN << >>
    ELSE InsertByID(SortByID(Tail(IDList)), Head(IDList))

\* lines 541-558: X and Y of each claim, two bytes each
RECURSIVE ClaimBytes(_)
ClaimBytes(claims) ==
    IF claims = << >> THEN << >>
    ELSE LEBytes(Head(claims).X, 2) \o LEBytes(Head(claims).Y, 2) \o ClaimBytes(Tail(claims))

\* lines 527-558: one owner record
OwnerRecordBytes(k) ==
    LEBytes(k.TribeOrPlayerID, 8)
        \o LEBytes(Len(k.LandClaims), 4) \o LEBytes(Len(k.WaterClaims), 4)
        \o ClaimBytes(k.LandClaims) \o ClaimBytes(k.WaterClaims)

RECURSIVE OwnerRecordsBytes(_)
OwnerRecordsBytes(IDList) ==
    IF IDList = << >> THEN << >>
    ELSE OwnerRecordBytes(Head(IDList)) \o OwnerRecordsBytes(Tail(IDList))

FileVerison == 2

CompressionType == 1

\* generateCompressedFile, lines 448-559: the bytes written to an open file;
\* iter is the order in which range yields the owners of IDMap
generateCompressedFile(cfg, opts, quadTree, iter) ==
    LET IDMap  == BuildIDMap(opts, Handled(cfg, opts, quadTree),
                             Len(Handled(cfg, opts, quadTree)))
        IDList == [i \in DOMAIN iter |-> IDMap[iter[i]]]
    IN  LEBytes(FileVerison, 2) \o LEBytes(CompressionType, 2)
            \o LEBytes(opts.actualPixels % 65536, 2) \o LEBytes(cfg.GameSize % 65536, 2)
            \o LEBytes(Cardinality(DOMAIN IDMap), 4)
            \o OwnerRecordsBytes(SortByID(IDList))

\* the owners in IDMap when the owner records are written
MapOwners(cfg, opts, quadTree) ==
    {Handled(cfg, opts, quadTree)[i].marker.tribeOrOwnerID :
        i \in DOMAIN Handled(cfg, opts, quadTree)}

\* The snapshots tried: up to MaxWorldMarkers markers out of land and water
\* markers of two players and land and unknown-type markers of a group in
\* the first cell, and a land marker at the far corner of the second.
MaxWorldMarkers == 3

WorldMarkerPool ==
    {ParseMarker(<< 0, 0 >>, RawRecord(owner, 100, 200, type)) :
        owner \in {5, 20}, type \in {0, 1}}
        \cup {ParseMarker(<< 0, 0 >>, RawRecord(1000050007, 100, 200, type)) : type \in {0, 2}}
        \cup {ParseMarker(<< 1, 0 >>, RawRecord(10, 65535, 65535, 0))}

\* the configurations tried: the defaults, and the defaults on a 2 x 1 grid
WorldInit ==
    /\ mapIn \in [used : {TRUE},
                  cfg : {DefaultConfig, [DefaultConfig EXCEPT !.ServersX = 2, !.ServersY = 1]},
                  markers : UNION {[1..n -> WorldMarkerPool] : n \in 0..MaxWorldMarkers}]
    /\ mapOut = NoInput
    /\ FPIdle /\ TopIdle /\ ColorIdle /\ GutterIdle
    /\ WorkersStart({{}}, {FALSE})

\* generateGame (lines 596-620) with the temp file opened
WorldGenerate ==
    /\ mapIn.used /\ ~mapOut.used
    /\ LET opts == GameOpts(mapIn.cfg)
           qt   == createQuadTree(mapIn.cfg, opts, mapIn.markers)
       IN  \E iter \in Perms(MapOwners(mapIn.cfg, opts, qt)) :
              mapOut' = [used     |-> TRUE,
                         returned |-> Query(qt, ClipWindow(opts)),
                         iter     |-> iter,
                         bytes    |-> generateCompressedFile(mapIn.cfg, opts, qt, iter)]
    /\ UNCHANGED << mapIn, fpVars, topVars, colorVars, gutterVars, workerVars >>

SpecWorld == WorldInit /\ [][WorldGenerate]_vars

(***************************************************************************)
(* generateTiles and generateImage: what a tile draws.                     *)
(***************************************************************************)
\* the MapOptions of generateTiles for the tile (tileX, tileY) of a zoom level
TileOpts(cfg, zoomLevel, tileX, tileY) ==
    LET virtualPixels        == cfg.TileSize * (2 ^ (cfg.MaxZoom - 1))
        virtualPixelsPerTile == virtualPixels \div Tiles(zoomLevel)
        minX == tileX * virtualPixelsPerTile
        minY == tileY * virtualPixelsPerTile
    IN  [actualPixels  |-> cfg.TileSize,
         virtualPixels |-> virtualPixels,
         virtualClip   |-> ImageRect(minX, minY, minX + virtualPixelsPerTile - 1,
                                     minY + virtualPixelsPerTile - 1)]

\* radius in image coordinates (lines 391-400)
ImageRadius(cfg, opts, vb) ==
    LET iRadius == CASE vb.marker.markerType = 0
                          -> RatMul(VirtualLandRadius(cfg, opts), VirtualToActual(opts))
                     [] vb.marker.markerType = 1
                          -> RatMul(VirtualWaterRadius(cfg, opts), VirtualToActual(opts))
                     [] OTHER -> Float(1)
    IN  IF RatLess(iRadius, Float(1)) THEN Float(1) ELSE iRadius

\* generateImage, lines 368-408: the circles drawn, in order
generateImage(cfg, opts, quadTree) ==
    [i \in DOMAIN Handled(cfg, opts, quadTree) |->
        LET vb == Handled(cfg, opts, quadTree)[i]
        IN  [marker  |-> vb.marker,
             iX      |-> RatMul(ClipX(opts, vb), VirtualToActual(opts)),
             iY      |-> RatMul(ClipY(opts, vb), VirtualToActual(opts)),
             iRadius |-> ImageRadius(cfg, opts, vb),
             color   |-> getTribeColor(vb.marker.tribeOrOwnerID)]]

\* the defaults of loadConfig on a 15 x 15 grid with a two-level pyramid
LargeGridConfig == [DefaultConfig EXCEPT !.ServersX = 15, !.ServersY = 15, !.MaxZoom = 2]

\* A marker of the given owner and type whose virtual position is (x, y):
\* its cell is the one (x, y) falls in, its relative position the rest.
MarkerAt(cfg, opts, owner, type, x, y) ==
    LET vpps == VirtualPixelsPerServer(cfg, opts)
        sx   == x[1] \div (x[2] * vpps[1])
        sy   == y[1] \div (y[2] * vpps[1])
    IN  [serverX |-> sx, serverY |-> sy, tribeOrOwnerID |-> owner,
         relX |-> RatSub(RatMul(x, << 1, vpps[1] >>), Float(sx)),
         relY |-> RatSub(RatMul(y, << 1, vpps[1] >>), Float(sy)),
         markerType |-> type]

\* The marker at the seam between the tiles (tileX, tileY) and
\* (tileX + 1, tileY): half the radius of its circle (the land or the water
\* radius, in virtual pixels) left of the boundary, in the middle of the row.
SeamMarker(in) ==
    LET right  == TileOpts(in.cfg, in.zoomLevel, in.tileX + 1, in.tileY)
        radius == IF in.markerType = 0 THEN VirtualLandRadius(in.cfg, right)
                                       ELSE VirtualWaterRadius(in.cfg, right)
    IN  MarkerAt(in.cfg, right, 1000050007, in.markerType,
                 RatSub(Float(right.virtualClip.Min.X), RatMul(<< 1, 2 >>, radius)),
                 Rat(right.virtualClip.Min.Y + right.virtualClip.Max.Y + 1, 2))

\* every seam of every zoom level, for a land and for a water marker, under
\* the default configuration and on the large grid
GutterInputs ==
    UNION {UNION {[used : {TRUE}, cfg : {cfg}, zoomLevel : {z}, tileX : 0..(Tiles(z) - 2),
                   tileY : 0..(Tiles(z) - 1), markerType : {0, 1}] :
                      z \in 1..(cfg.MaxZoom - 1)} :
              cfg \in {DefaultConfig, LargeGridConfig}}

GutterInit ==
    /\ gutIn \in GutterInputs
    /\ gutOut = NoInput
    /\ FPIdle /\ TopIdle /\ ColorIdle /\ WorldIdle
    /\ WorkersStart({{}}, {FALSE})

\* what generateTiles does with one tile: the query result and the circles drawn
TileResult(cfg, opts, ms) ==
    LET qt == createQuadTree(cfg, opts, ms)
    IN  [returned |-> Query(qt, ClipWindow(opts)),
         drawn    |-> generateImage(cfg, opts, qt)]

\* generateTiles (lines 574-593) on the seam marker, for the two tiles
GutterDraw ==
    /\ gutIn.used /\ ~gutOut.used
    /\ LET m == SeamMarker(gutIn)
       IN  gutOut' =
             [used   |-> TRUE,
              marker |-> m,
              left   |-> TileResult(gutIn.cfg,
                            TileOpts(gutIn.cfg, gutIn.zoomLevel, gutIn.tileX, gutIn.tileY),
                            << m >>),
              right  |-> TileResult(gutIn.cfg,
                            TileOpts(gutIn.cfg, gutIn.zoomLevel, gutIn.tileX + 1, gutIn.tileY),
                            << m >>)]
    /\ UNCHANGED << gutIn, fpVars, topVars, colorVars, worldVars, workerVars >>

SpecGutter == GutterInit /\ [][GutterDraw]_vars

(***************************************************************************)
(* Properties of the workers (Spec).                                       *)
(***************************************************************************)
TaskPath(z) == TilePath(z, tidx[z])

\* a task or the game worker holds a fully written temp file and has not
\* yet called os.Remove / has called os.Remove and not yet os.Rename
GameBeforeRemove == "game" \in enabled /\ pc["game"] = "remove" /\ gtmp.complete

GameBeforeRename == "game" \in enabled /\ pc["game"] = "rename" /\ gtmp.complete

TaskBeforeRemove(z) == tpc[z] = "remove" /\ ttmp[z].complete

TaskBeforeRename(z) == tpc[z] = "rename" /\ ttmp[z].complete

\* C1: a cycle whose fingerprint equals the stored one makes no file
\* operation and no upload; in particular the second of two cycles that
\* ingested byte-identical snapshots writes nothing.
C1_SkipOnNoChange ==
    \A w \in Workers :
        /\ skipped[w] => ~wrote[w]
        /\ skipped[w] /\ w = "tile" => \A z \in Zooms : tpc[z] \in {"idle", "done"}
        /\ cycle[w] >= 2 /\ snap[w] = prevSnap[w] => ~wrote[w] /\ pc[w] \in {"sleep", "fetch"}

C1_Witness ==
    \E w \in Workers :
        /\ cycle[w] >= 2 /\ skipped[w] /\ pc[w] = "sleep"
        /\ snap[w] = prevSnap[w] /\ snap[w] # << >>
        /\ \E p \in Paths : fs[p].present

\* C2 as stated: after a crash at any point between the temp file being
\* written and the rename taking effect, the previously published artifact
\* is still at the canonical path with its prior content.
C2_AtomicPublish ==
    proc = "crashed" =>
        /\ (GameBeforeRemove \/ GameBeforeRename) /\ gbefore.present => fs[WorldPath] = gbefore
        /\ \A z \in Zooms :
              (TaskBeforeRemove(z) \/ TaskBeforeRename(z)) /\ tbefore[z].present
                  => fs[TaskPath(z)] = tbefore[z]

\* C2 as amended: after a crash before os.Remove has run the prior artifact
\* is intact; after a crash between os.Remove and os.Rename the canonical
\* path is absent.
C2_PublishWindow ==
    proc = "crashed" =>
        /\ GameBeforeRemove => fs[WorldPath] = gbefore
        /\ GameBeforeRename => ~fs[WorldPath].present
        /\ \A z \in Zooms :
              /\ TaskBeforeRemove(z) => fs[TaskPath(z)] = tbefore[z]
              /\ TaskBeforeRename(z) => ~fs[TaskPath(z)].present

C2_Witness ==
    /\ proc = "crashed"
    /\ \/ GameBeforeRemove /\ gbefore.present /\ gbefore.complete /\ gtmp # gbefore
       \/ \E z \in Zooms : TaskBeforeRemove(z) /\ tbefore[z].present /\ ttmp[z] # tbefore[z]

\* C3: when the staging directory or the temp file cannot be created, the
\* file published before at the canonical path is left untouched.
C3_StagingFailureKeepsArtifact ==
    /\ "game" \in enabled /\ pc["game"] \in {"write", "remove", "rename", "urls", "notify", "sleep"}
          /\ genFailed["game"] => fs[WorldPath] = gbefore
    /\ \A z \in Zooms :
          tpc[z] \in {"write", "remove", "rename"} /\ ~tf[z] => fs[TaskPath(z)] = tbefore[z]

\* C4: after a cycle whose generation failed, the next cycle generates
\* again, whatever snapshot it ingests.
C4_RetryAfterFailure ==
    \A w \in Workers : prevGenFailed[w] /\ proc # "panicked" => ~skipped[w]

\* C5: every URL announcement and every refresh notification follows a
\* world.map publish completed since the signal before it, at start-up too.
C5_PublishBeforeNotify == ~unbacked

\* C6: a failed read or a malformed record never ends the worker.
C6_IngestionNeverStops ==
    \A w \in Workers : ingestErr[w] => proc # "panicked"

AllTasks(at) == \A z \in Zooms : tpc[z] \in at

\* C10: a generating cycle starts one task per zoom level, the WaitGroup
\* counter is the number of tasks that have not returned, and the worker
\* leaves wg.Wait only when every task has returned.
C10_EndOfCycleJoin ==
    "tile" \in enabled =>
        /\ wg >= 0
        /\ pc["tile"] \in {"spawn", "wait"}
              => wg = Cardinality({z \in Zooms : tpc[z] # "done"})
        /\ pc["tile"] = "spawn" => \A z \in Zooms : (tpc[z] = "idle") = (z >= zoom)
        /\ pc["tile"] = "wait" => AllTasks({"open", "write", "remove", "rename", "done"})
        /\ pc["tile"] \in {"sleep", "fetch"} => AllTasks({"idle", "done"})
        /\ pc["tile"] = "sleep" /\ ~skipped["tile"] => AllTasks({"done"}) /\ wg = 0

C10_Witness ==
    /\ pc["tile"] = "sleep" /\ ~skipped["tile"] /\ cycle["tile"] >= 1
    /\ AllTasks({"done"}) /\ wg = 0
    /\ \A p \in Paths \ {WorldPath} : fs[p].present

\* a generateTiles task is inside generateImage's file operations
TaskActive(z) == tpc[z] \in {"open", "write", "remove", "rename"}

GameActive == "game" \in enabled /\ pc["game"] \in {"open", "write", "remove", "rename"}

\* the tasks writing, removing or renaming the canonical path p
WritersOf(p) ==
    {z \in Zooms : TaskActive(z) /\ TaskPath(z) = p}
        \cup (IF GameActive /\ p = WorldPath THEN {"game"} ELSE {})

\* the canonical paths a zoom-level task writes
ZoomPaths(z) == {TilePath(z, i) : i \in 0..(TileCount(z) - 1)}

\* C11: every canonical path has at most one task writing, removing or
\* renaming it; the zoom-level tasks write pairwise disjoint sets of paths,
\* none of them world.map; and every task at work was started by the
\* worker's current cycle, so that two cycles never overlap.
C11_SingleWriter ==
    /\ \A p \in Paths : Cardinality(WritersOf(p)) <= 1
    /\ \A z1, z2 \in Zooms : z1 # z2 => ZoomPaths(z1) \cap ZoomPaths(z2) = {}
    /\ \A z \in Zooms : WorldPath \notin ZoomPaths(z)
    /\ \A z \in Zooms :
          TaskActive(z) => tcycle[z] = cycle["tile"] /\ pc["tile"] \in {"spawn", "wait"}

C11_Witness ==
    /\ cycle["tile"] >= 2
    /\ \E z1, z2 \in Zooms :
          /\ z1 # z2
          /\ tpc[z1] \in {"remove", "rename"} /\ tpc[z2] \in {"remove", "rename"}
          /\ tcycle[z1] = 2 /\ tcycle[z2] = 2
          /\ fs[TilePath(z2, 0)].present

(***************************************************************************)
(* Properties of fetchClaimMarkers (SpecFP).                               *)
(***************************************************************************)
FPReturned == fpOut.used /\ ~fpOut.a.panicked /\ ~fpOut.b.panicked

\* distinct raw records have distinct checksums
NoChecksumCollision ==
    \A r1, r2 \in RecIds : r1 # r2 => RecordChecksum[r1] # RecordChecksum[r2]

MarkerSet(res) == {res.markers[i] : i \in DOMAIN res.markers}

\* C8: the same store delivered in any two orders gives the same fingerprint.
C8_OrderIndependent ==
    FPReturned /\ fpIn.a = fpIn.b => fpOut.a.crc = fpOut.b.crc

C8_Witness ==
    /\ FPReturned /\ fpIn.a = fpIn.b
    /\ fpOut.a.markers # fpOut.b.markers
    /\ fpOut.a.crc = fpOut.b.crc

\* C9: snapshots that differ in membership or in a marker's cell, relative
\* position, owner or type have different fingerprints.
C9_Sensitive ==
    FPReturned /\ NoChecksumCollision /\ MarkerSet(fpOut.a) # MarkerSet(fpOut.b)
        => fpOut.a.crc # fpOut.b.crc

(***************************************************************************)
(* Properties of TopNTribes (SpecTopN).                                    *)
(***************************************************************************)
\* the owners ordered by count descending, then ownerID ascending
Ranked(counts) ==
    CHOOSE s \in Perms(DOMAIN counts) :
        \A i, j \in 1..Len(s) :
            i < j => \/ counts[s[i]] > counts[s[j]]
                     \/ counts[s[i]] = counts[s[j]] /\ s[i] < s[j]

\* C7: the result is the first min(n, distinct owners) owners by
\* (count descending, ownerID ascending).
C7_TopNOrder ==
    topOut.used =>
        topOut.result = SubSeq(Ranked(topIn.counts), 1, Min(topIn.n, Len(Ranked(topIn.counts))))
(***************************************************************************)
(* Properties of getTribeColor (SpecColor).                                *)
(***************************************************************************)
Unclaimed == << 0, 0, 0, 255 >>

NeutralOwner == << 169, 169, 169, 255 >>

Palette == << << 255, 255, 0, 255 >>, << 0, 0, 255, 255 >>,
             << 128, 0, 128, 255 >>, << 255, 127, 80, 255 >> >>

PaletteEntry(id) == Palette[(id % 4) + 1]

\* C12 as stated: owner 0 gets the unclaimed colour, every other owner below
\* 1000050000 the neutral colour, and every owner from 1000050000 on the
\* palette entry at ownerID mod paletteSize.
C12_OwnerClassification ==
    colOut.used =>
        colOut.color = (IF colIn.tribeID = 0 THEN Unclaimed
                        ELSE IF colIn.tribeID < GroupThreshold THEN NeutralOwner
                        ELSE PaletteEntry(colIn.tribeID))

\* C12 as amended: owner 0 gets the unclaimed colour, every other owner up
\* to and including 1000050000 the neutral colour, and every owner above
\* 1000050000 the palette entry at ownerID mod paletteSize.
C12_ClassificationAboveThreshold ==
    colOut.used =>
        colOut.color = (IF colIn.tribeID = 0 THEN Unclaimed
                        ELSE IF colIn.tribeID <= GroupThreshold THEN NeutralOwner
                        ELSE PaletteEntry(colIn.tribeID))

C12_Witness ==
    /\ colOut.used
    /\ colIn.tribeID = GroupThreshold
    /\ colOut.color = NeutralOwner
(***************************************************************************)
(* Properties of the world snapshot (SpecWorld).                           *)
(***************************************************************************)
HeaderLen == 12

OwnerHeaderLen == 16

\* The owner records read back from the byte stream from position pos on:
\* each record's counts say how many (x, y) pairs are read after it.  The
\* result ends with ShortRecord when the stream ends inside a record.
ShortRecord == [ok |-> FALSE, id |-> 0, land |-> 0, water |-> 0]

RECURSIVE ReadOwnerRecords(_, _)
ReadOwnerRecords(bytes, pos) ==
    IF pos > Len(bytes) THEN << >>
    ELSE IF pos + OwnerHeaderLen - 1 > Len(bytes) THEN << ShortRecord >>
    ELSE LET id    == LEUint(SubSeq(bytes, pos, pos + 7))
             land  == LEUint(SubSeq(bytes, pos + 8, pos + 11))
             water == LEUint(SubSeq(bytes, pos + 12, pos + 15))
             next  == pos + OwnerHeaderLen + 4 * (land + water)
         IN  IF next - 1 > Len(bytes) THEN << ShortRecord >>
             ELSE << [ok |-> TRUE, id |-> id, land |-> land, water |-> water] >>
                      \o ReadOwnerRecords(bytes, next)

ReturnedOf(owner, type) ==
    {i \in DOMAIN mapOut.returned :
        /\ mapOut.returned[i].marker.tribeOrOwnerID = owner
        /\ mapOut.returned[i].marker.markerType = type}

ReturnedOwners ==
    {mapOut.returned[i].marker.tribeOrOwnerID : i \in DOMAIN mapOut.returned}

\* C13: the owner records of the byte stream are in strictly ascending
\* ownerID order, one for each distinct owner among the markers the
\* whole-extent query returned; the ownerCount field is the number of
\* records; and each record's land and water counts are the numbers of
\* (x, y) pairs that follow it, one pair per land or water marker of the owner.
C13_OwnerRecords ==
    mapOut.used =>
        LET recs == ReadOwnerRecords(mapOut.bytes, HeaderLen + 1)
        IN  /\ Len(mapOut.bytes) >= HeaderLen
            /\ \A i \in DOMAIN recs : recs[i].ok
            /\ LEUint(SubSeq(mapOut.bytes, 9, 12)) = Len(recs)
            /\ \A i, j \in DOMAIN recs : i < j => recs[i].id < recs[j].id
            /\ {recs[i].id : i \in DOMAIN recs} = ReturnedOwners
            /\ \A i \in DOMAIN recs :
                  /\ recs[i].land = Cardinality(ReturnedOf(recs[i].id, 0))
                  /\ recs[i].water = Cardinality(ReturnedOf(recs[i].id, 1))

C13_Witness ==
    /\ mapOut.used
    /\ Cardinality(ReturnedOwners) = 3
    /\ mapOut.iter[1] > mapOut.iter[2]
    /\ Len(mapOut.bytes) = HeaderLen + 3 * OwnerHeaderLen + 8
    /\ \E o \in ReturnedOwners : ReturnedOf(o, 2) # {}
(***************************************************************************)
(* Properties of the tile seams (SpecGutter).                              *)
(***************************************************************************)
InTile(res, m) ==
    /\ \E i \in DOMAIN res.returned : res.returned[i].marker = m
    /\ \E i \in DOMAIN res.drawn : res.drawn[i].marker = m

\* C14: a marker placed half its radius left of the boundary between two
\* horizontally adjacent tiles is returned by the query and passes the
\* gutter filter for the left and for the right tile: it is drawn in both.
C14_GutterAtSeams ==
    gutOut.used => InTile(gutOut.left, gutOut.marker) /\ InTile(gutOut.right, gutOut.marker)
(***************************************************************************)
(* Properties of the first polling cycle (Spec).                           *)
(***************************************************************************)
\* C15: the first polling cycle of a worker never finds the fingerprint
\* unchanged: whatever snapshot it fetched, it goes on to generate.
C15_FirstCycleGenerates ==
    \A w \in Workers : cycle[w] = 1 => ~skipped[w]
====
